---------------------------- MODULE Spec2Model ----------------------------
(***************************************************************************)
(* Point-pattern statistics and canopy metrics of EmpiricalPatternR:       *)
(* the toroidal nearest-neighbour engine and the Clark-Evans index (three  *)
(* implementations), the crown-overlap sum, the nearest-footprint          *)
(* distance, the energy reducers and the canopy-cover rasterizers.         *)
(*                                                                         *)
(* Numbers.  Inputs are integer-valued doubles, on which +, -, *, floor,   *)
(* ceil and comparisons are exact.  A double produced by sqrt is kept as   *)
(* its radicand, <<"sqrt", q>> for sqrt(q); the two large literals of the  *)
(* code that exceed the integer range are kept as the tagged values        *)
(* <<"1e10", 0>> and <<"DBL_MAX", 0>>.  A sum of such values is kept in    *)
(* surd normal form (a bag  squarefree part |-> integer coefficient), in   *)
(* which two sums are equal exactly when the real numbers are equal.       *)
(***************************************************************************)
EXTENDS Integers, Naturals, Sequences, FiniteSets, Bags, TLC

\* args, pc, loc, ret: the arguments, control position, locals and result of the call
\* under way; nthreads_var: the OpenMP setting of the process that fixes the number
\* of workers of later parallel regions (what omp_set_num_threads sets)
VARIABLES args, pc, loc, ret, nthreads_var

vars == <<args, pc, loc, ret, nthreads_var>>

(***************************************************************************)
(* Bounds of the model.                                                    *)
(***************************************************************************)
MaxN == 2
Cells == 3
MaxK == 2
MaxLen == 2
MaxVal == 1
MaxId == 2
MaxCrowns == 2
MaxCoord == 2
MaxRadius == 2
MaxQ == 2
MaxT == 2
MaxTrees == 2
MaxThreads == 2

\* ---------------------------------------------------------------- numbers

Abs(a) == IF a < 0 THEN -a ELSE a

Min(a, b) == IF b < a THEN b ELSE a

Max(a, b) == IF a < b THEN b ELSE a

\* floor(a / b) and ceil(a / b) for b > 0 (\div rounds towards minus infinity)
FloorDiv(a, b) == a \div b

CeilDiv(a, b) == -((-a) \div b)

SqrtOf(q) == <<"sqrt", q>>

E10 == <<"1e10", 0>>

DBL_MAX == <<"DBL_MAX", 0>>

Rank(v) == CASE v[1] = "sqrt" -> 0 [] v[1] = "1e10" -> 1 [] v[1] = "DBL_MAX" -> 2

\* a < b on distance values; every radicand of the model is below 10^20
Lt(a, b) == \/ Rank(a) < Rank(b)
            \/ Rank(a) = Rank(b) /\ a[2] < b[2]

\* q = m*m*s with s squarefree: <<m, s>>, by trial division
RECURSIVE SquareFree(_, _, _)
SquareFree(q, m, p) ==
    IF p * p > q THEN <<m, q>>
    ELSE IF q % (p * p) = 0 THEN SquareFree(q \div (p * p), m * p, p)
    ELSE SquareFree(q, m, p + 1)

\* the value v as a surd sum
Surd(v) ==
    IF v[1] = "sqrt"
    THEN IF v[2] = 0 THEN EmptyBag
         ELSE LET ms == SquareFree(v[2], 1, 2)
              IN  [e \in {SqrtOf(ms[2])} |-> ms[1]]
    ELSE [e \in {v} |-> 1]

RECURSIVE SurdSum(_)
SurdSum(s) == IF s = <<>> THEN EmptyBag ELSE Surd(Head(s)) (+) SurdSum(Tail(s))

\* c * b for an integer c > 0
Scale(b, c) == [e \in DOMAIN b |-> c * b[e]]

\* ------------------------------------------------------ toroidal distance

\* a deliberately wrong variant: the wrapped separation is never taken
getEuclideanDistance_NoWrap(xmax, ymax, x1, y1, x2, y2) ==
    LET dx == Abs(x1 - x2)
        dy == Abs(y1 - y2)
    IN  SqrtOf(dx * dx + dy * dy)

getEuclideanDistance(xmax, ymax, x1, y1, x2, y2) ==
    LET dx0 == Abs(x1 - x2)
        dy0 == Abs(y1 - y2)
        dx == Min(dx0, xmax - dx0)
        dy == Min(dy0, ymax - dy0)
    IN  SqrtOf(dx * dx + dy * dy)

getEuclideanDistanceRcpp(xmax, ymax, x1, y1, x2, y2) ==
    LET dx0 == Abs(x1 - x2)
        dy0 == Abs(y1 - y2)
        dx == Min(dx0, xmax - dx0)
        dy == Min(dy0, ymax - dy0)
    IN  SqrtOf(dx * dx + dy * dy)


\* a deliberately wrong variant: the y axis is not wrapped
ToroidalInline_NoWrapY(xmax, ymax, xi, yi, xj, yj) ==
    LET dx0 == Abs(xi - xj)
        dx == Min(dx0, xmax - dx0)
        dy == Abs(yi - yj)
    IN  SqrtOf(dx * dx + dy * dy)

\* the distance computed inline by calcCEParallel
ToroidalInline(xmax, ymax, xi, yi, xj, yj) ==
    LET dx0 == Abs(xi - xj)
        dy0 == Abs(yi - yj)
        dx == Min(dx0, xmax - dx0)
        dy == Min(dy0, ymax - dy0)
    IN  SqrtOf(dx * dx + dy * dy)

\* --------------------------------------------- std::priority_queue<double>
\* a max-queue, kept as the sequence of its elements in descending order

RECURSIVE Push(_, _)
Push(q, d) ==
    IF q = <<>> THEN <<d>>
    ELSE IF Lt(Head(q), d) THEN <<d>> \o q
    ELSE <<Head(q)>> \o Push(Tail(q), d)

Top(q) == Head(q)

Pop(q) == Tail(q)

\* a / n for a sum a and an integer n (0.0 / 0 is NaN)
Quot(a, n) == IF n = 0 THEN [kind |-> "NaN"] ELSE [kind |-> "num", sum |-> a, div |-> n]

\* --------------------------------------------------------- findNeighbours

DUMMY_LARGE_DISTANCE == SqrtOf(1000000)

\* the mi+1 sentinels every queue starts with
InitQueue(mi) == [j \in 1..(mi + 1) |-> DUMMY_LARGE_DISTANCE]

\* if(d < distances[i].top()) { pop(); push(d); }
Offer(q, d) == IF Lt(d, Top(q)) THEN Push(Pop(q), d) ELSE q

\* the pair loop, for(i = 0; i < na - 1; i++) for(j = i + 1; j < na; j++); 1-based here
RECURSIVE PairLoop(_, _, _, _, _, _, _)
PairLoop(xmax, ymax, x, y, distances, i, j) ==
    IF i > Len(x) - 1 THEN distances
    ELSE IF j > Len(x) THEN PairLoop(xmax, ymax, x, y, distances, i + 1, i + 2)
    ELSE LET d == getEuclideanDistance(xmax, ymax, x[i], y[i], x[j], y[j])
         IN  PairLoop(xmax, ymax, x, y,
                      [distances EXCEPT ![i] = Offer(@, d), ![j] = Offer(@, d)],
                      i, j + 1)

\* the queues after the pair loop and the final pop of each
PoppedQueues(xmax, ymax, x, y, mi) ==
    LET filled == PairLoop(xmax, ymax, x, y, [i \in 1..Len(x) |-> InitQueue(mi)], 1, 2)
    IN  [i \in 1..Len(x) |-> Pop(filled[i])]

\* d1 += top of every non-empty popped queue
RECURSIVE SumTops(_, _)
SumTops(distances, i) ==
    IF i > Len(distances) THEN EmptyBag
    ELSE (IF distances[i] # <<>> THEN Surd(Top(distances[i])) ELSE EmptyBag)
         (+) SumTops(distances, i + 1)

findNeighbours(xmax, ymax, x, y, mi) ==
    Quot(SumTops(PoppedQueues(xmax, ymax, x, y, mi), 1), Len(x))

\* d1 / d1Poisson with d1Poisson = 0.5 * sqrt((xmax * ymax) / na); for na = 0 the
\* divisor is +inf and d1 is NaN
Index(d1, xmax, ymax, na) ==
    IF na = 0 \/ d1.kind = "NaN" THEN [kind |-> "NaN"]
    ELSE [kind |-> "num", sum |-> d1.sum, div |-> d1.div, area |-> xmax * ymax, na |-> na]

calcCE(xmax, ymax, x, y) ==
    Index(findNeighbours(xmax, ymax, x, y, 1), xmax, ymax, Len(x))

\* ------------------------------------- RcppParallel variant (distance matrix)

\* NeighborFinder::operator() over all rows
NeighborFinder(xmax, ymax, x, y) ==
    [i \in 1..Len(x) |->
        [j \in 1..Len(x) |->
            IF i # j THEN getEuclideanDistanceRcpp(xmax, ymax, x[i], y[i], x[j], y[j])
            ELSE DBL_MAX]]

\* std::nth_element leaves the mi smallest elements in front; kept sorted here
RECURSIVE SortAsc(_)
SortAsc(row) ==
    IF row = <<>> THEN <<>>
    ELSE LET m == CHOOSE k \in 1..Len(row) : \A l \in 1..Len(row) : ~Lt(row[l], row[k])
         IN  <<row[m]>> \o SortAsc(SubSeq(row, 1, m - 1) \o SubSeq(row, m + 1, Len(row)))

findNeighboursParallel(x, y, xmax, ymax, mi) ==
    LET distances == NeighborFinder(xmax, ymax, x, y)
    IN  [i \in 1..Len(x) |->
            [sum |-> SurdSum(SubSeq(SortAsc(distances[i]), 1, mi)), div |-> mi]]

RECURSIVE SumOfSums(_)
SumOfSums(v) == IF v = <<>> THEN EmptyBag ELSE Head(v).sum (+) SumOfSums(Tail(v))

\* Rcpp sugar mean() of a vector whose entries share one divisor
RcppMean(v) == IF v = <<>> THEN [kind |-> "NaN"]
               ELSE Quot(SumOfSums(v), v[1].div * Len(v))

calcCERcpp(xmax, ymax, x, y) ==
    Index(RcppMean(findNeighboursParallel(x, y, xmax, ymax, 1)), xmax, ymax, Len(x))

\* ----------------------------------------------- OpenMP variant (running min)

\* the inner j loop of iteration i
RECURSIVE NearestLoop(_, _, _, _, _, _, _)
NearestLoop(xmax, ymax, x, y, i, j, min_d) ==
    IF j > Len(x) THEN min_d
    ELSE IF i = j THEN NearestLoop(xmax, ymax, x, y, i, j + 1, min_d)
    ELSE LET d == ToroidalInline(xmax, ymax, x[i], y[i], x[j], y[j])
         IN  NearestLoop(xmax, ymax, x, y, i, j + 1, IF Lt(d, min_d) THEN d ELSE min_d)

calcCEParallel(xmax, ymax, x, y) ==
    LET nearest_dist == [i \in 1..Len(x) |-> NearestLoop(xmax, ymax, x, y, i, 1, E10)]
    IN  Index(Quot(SurdSum(nearest_dist), Len(x)), xmax, ymax, Len(x))

\* ------------------------------------------------------------------ calls

NoRet == [fn |-> "none"]

\* the number of workers the OpenMP runtime starts with on the machine
DefaultThreads == 4

\* plots: the lattice units of the two axes; Cells lattice steps per axis
Shapes == {<<1, 2>>, <<750, 750>>}

PointArgs ==
    { [xmax |-> s[1] * Cells, ymax |-> s[2] * Cells,
       x |-> [i \in 1..n |-> s[1] * cx[i]], y |-> [i \in 1..n |-> s[2] * cy[i]]] :
         s \in Shapes, n \in {0} ,cx \in {<<>>}, cy \in {<<>>} }
    \cup
    UNION { { [xmax |-> s[1] * Cells, ymax |-> s[2] * Cells,
               x |-> [i \in 1..n |-> s[1] * cx[i]], y |-> [i \in 1..n |-> s[2] * cy[i]]] :
                 cx \in [1..n -> 0..(Cells - 1)], cy \in [1..n -> 0..(Cells - 1)] } :
            s \in Shapes, n \in 1..MaxN }

InitNN ==
    /\ args \in PointArgs
    /\ pc = "idle"
    /\ loc = <<>>
    /\ ret = NoRet
    /\ nthreads_var = DefaultThreads

CallGetEuclideanDistance ==
    /\ pc = "idle"
    /\ \E i, j \in 1..Len(args.x) :
          ret' = [fn |-> "getEuclideanDistance", i |-> i, j |-> j,
                  val |-> getEuclideanDistance(args.xmax, args.ymax,
                                               args.x[i], args.y[i], args.x[j], args.y[j])]
    /\ pc' = "done"
    /\ UNCHANGED <<args, loc>>
    /\ UNCHANGED nthreads_var

CallGetEuclideanDistanceRcpp ==
    /\ pc = "idle"
    /\ \E i, j \in 1..Len(args.x) :
          ret' = [fn |-> "getEuclideanDistanceRcpp", i |-> i, j |-> j,
                  val |-> getEuclideanDistanceRcpp(args.xmax, args.ymax,
                                                   args.x[i], args.y[i], args.x[j], args.y[j])]
    /\ pc' = "done"
    /\ UNCHANGED <<args, loc>>
    /\ UNCHANGED nthreads_var

CallFindNeighbours ==
    /\ pc = "idle"
    /\ \E mi \in 1..MaxK :
          /\ ret' = [fn |-> "findNeighbours", mi |-> mi,
                     val |-> findNeighbours(args.xmax, args.ymax, args.x, args.y, mi)]
          /\ loc' = [distances |-> PoppedQueues(args.xmax, args.ymax, args.x, args.y, mi)]
    /\ pc' = "done"
    /\ UNCHANGED args
    /\ UNCHANGED nthreads_var

CallCalcCE ==
    /\ pc = "idle"
    /\ ret' = [fn |-> "calcCE", val |-> calcCE(args.xmax, args.ymax, args.x, args.y)]
    /\ pc' = "done"
    /\ UNCHANGED <<args, loc>>
    /\ UNCHANGED nthreads_var

CallCalcCERcpp ==
    /\ pc = "idle"
    /\ ret' = [fn |-> "calcCERcpp", val |-> calcCERcpp(args.xmax, args.ymax, args.x, args.y)]
    /\ pc' = "done"
    /\ UNCHANGED <<args, loc>>
    /\ UNCHANGED nthreads_var

CallCalcCEParallel ==
    /\ pc = "idle"
    /\ ret' = [fn |-> "calcCEParallel",
               val |-> calcCEParallel(args.xmax, args.ymax, args.x, args.y)]
    /\ pc' = "done"
    /\ UNCHANGED <<args, loc>>
    /\ UNCHANGED nthreads_var

NextNN ==
    \/ CallGetEuclideanDistance
    \/ CallGetEuclideanDistanceRcpp
    \/ CallFindNeighbours
    \/ CallCalcCE
    \/ CallCalcCERcpp
    \/ CallCalcCEParallel

SpecNN == InitNN /\ [][NextNN]_vars


\* ------------------------------------------------- nearest-neighbour claims

CEFunctions == {"calcCE", "calcCERcpp", "calcCEParallel"}

\* the toroidal separation of two coordinates, as the specification states it
TorSep(extent, a, b) ==
    LET d == Abs(a - b) IN IF d <= extent - d THEN d ELSE extent - d

\* the squared toroidal distance between points i and j of a
TorSq(a, i, j) ==
    LET sx == TorSep(a.xmax, a.x[i], a.x[j])
        sy == TorSep(a.ymax, a.y[i], a.y[j])
    IN  sx * sx + sy * sy

Others(a, i) == (1..Len(a.x)) \ {i}

\* the k-th smallest squared toroidal distance from point i to the other points
KthSmallestSq(a, i, k) ==
    CHOOSE v \in {TorSq(a, i, j) : j \in Others(a, i)} :
        /\ Cardinality({j \in Others(a, i) : TorSq(a, i, j) < v}) < k
        /\ Cardinality({j \in Others(a, i) : TorSq(a, i, j) <= v}) >= k

MeanKth(a, k) ==
    Quot(SurdSum([i \in 1..Len(a.x) |-> SqrtOf(KthSmallestSq(a, i, k))]), Len(a.x))

\* C2: when findNeighbours returns for n > k points, the top of every point's popped
\* queue is the k-th smallest toroidal distance from that point to the others, and
\* the value returned is the mean of these k-th distances
C2_KthNearest ==
    (pc = "done" /\ ret.fn = "findNeighbours" /\ Len(args.x) > ret.mi) =>
        /\ \A i \in 1..Len(args.x) :
              Top(loc.distances[i]) = SqrtOf(KthSmallestSq(args, i, ret.mi))
        /\ ret.val = MeanKth(args, ret.mi)

\* the same where every k-th distance is below the sentinel 1000.0
KthNearestBelowSentinel ==
    (/\ pc = "done" /\ ret.fn = "findNeighbours" /\ Len(args.x) > ret.mi
     /\ \A i \in 1..Len(args.x) :
           Lt(SqrtOf(KthSmallestSq(args, i, ret.mi)), DUMMY_LARGE_DISTANCE)) =>
        /\ \A i \in 1..Len(args.x) :
              Top(loc.distances[i]) = SqrtOf(KthSmallestSq(args, i, ret.mi))
        /\ ret.val = MeanKth(args, ret.mi)

\* the Clark-Evans index of a: mean nearest toroidal distance over 0.5*sqrt(area/n)
ClarkEvans(a) ==
    [kind |-> "num", sum |-> MeanKth(a, 1).sum, div |-> Len(a.x),
     area |-> a.xmax * a.ymax, na |-> Len(a.x)]

\* the index d1 / (0.5 * sqrt(area / na)) equals r: 2 * d1 * na / div = r * sqrt(area * na)
IndexIs(v, r) ==
    /\ v.kind = "num"
    /\ v.div = v.na
    /\ Scale(v.sum, 2) = Scale(Surd(SqrtOf(v.area * v.na)), r)

FourPoints ==
    /\ args.xmax = 20 /\ args.ymax = 20
    /\ args.x = <<0, 10, 0, 10>> /\ args.y = <<0, 0, 10, 10>>

\* C3: for n >= 2 the three Clark-Evans implementations return the same value, the
\* mean nearest toroidal distance divided by 0.5*sqrt(xmax*ymax/n); the four points
\* (0,0),(10,0),(0,10),(10,10) on a 20x20 plot give 2.0
C3_SameIndex ==
    (pc = "done" /\ ret.fn \in CEFunctions /\ Len(args.x) >= 2) =>
        /\ ret.val = ClarkEvans(args)
        /\ FourPoints => IndexIs(ret.val, 2)

\* the scenario alone
FourPointsIndexTwo ==
    (pc = "done" /\ ret.fn \in CEFunctions /\ FourPoints) => IndexIs(ret.val, 2)

DistOf(fn, a, i, j) ==
    CASE fn = "getEuclideanDistance" ->
            getEuclideanDistance(a.xmax, a.ymax, a.x[i], a.y[i], a.x[j], a.y[j])
      [] fn = "getEuclideanDistanceRcpp" ->
            getEuclideanDistanceRcpp(a.xmax, a.ymax, a.x[i], a.y[i], a.x[j], a.y[j])
      [] fn = "calcCEParallel" ->
            ToroidalInline(a.xmax, a.ymax, a.x[i], a.y[i], a.x[j], a.y[j])

\* C8: every toroidal distance computation uses per axis the separation
\* min(|delta|, extent - |delta|), which lies in [0, extent/2]; the distance is
\* non-negative, symmetric, and zero exactly when the two points coincide
C8_ToroidalDistance ==
    (pc = "done" /\ ret.fn \in {"getEuclideanDistance", "getEuclideanDistanceRcpp",
                                "calcCEParallel"}) =>
        \A i, j \in 1..Len(args.x) :
            LET d == DistOf(ret.fn, args, i, j)
                sx == TorSep(args.xmax, args.x[i], args.x[j])
                sy == TorSep(args.ymax, args.y[i], args.y[j])
            IN  /\ d = SqrtOf(sx * sx + sy * sy)
                /\ 0 <= sx /\ 2 * sx <= args.xmax
                /\ 0 <= sy /\ 2 * sy <= args.ymax
                /\ d[1] = "sqrt" /\ d[2] >= 0
                /\ d = DistOf(ret.fn, args, j, i)
                /\ (d[2] = 0) <=> (args.x[i] = args.x[j] /\ args.y[i] = args.y[j])
                /\ (ret.fn # "calcCEParallel" /\ ret.i = i /\ ret.j = j) => ret.val = d

\* a distance has been computed between two points whose shorter way wraps on x
C8_Witness ==
    /\ pc = "done" /\ ret.fn = "getEuclideanDistance"
    /\ 2 * Abs(args.x[ret.i] - args.x[ret.j]) > args.xmax
    /\ args.y[ret.i] # args.y[ret.j]
    /\ ret.val = SqrtOf(TorSq(args, ret.i, ret.j))

CEOf(fn, a) ==
    CASE fn = "calcCE" -> calcCE(a.xmax, a.ymax, a.x, a.y)
      [] fn = "calcCERcpp" -> calcCERcpp(a.xmax, a.ymax, a.x, a.y)
      [] fn = "calcCEParallel" -> calcCEParallel(a.xmax, a.ymax, a.x, a.y)

Permuted(a, p) ==
    [a EXCEPT !.x = [i \in 1..Len(a.x) |-> a.x[p[i]]],
              !.y = [i \in 1..Len(a.y) |-> a.y[p[i]]]]

Translated(a, tx, ty) ==
    [a EXCEPT !.x = [i \in 1..Len(a.x) |-> (a.x[i] + tx) % a.xmax],
              !.y = [i \in 1..Len(a.y) |-> (a.y[i] + ty) % a.ymax]]

\* the offsets tried: every lattice offset, and an offset of 1 off the lattice
Offsets(extent) == {c * (extent \div Cells) : c \in 0..(Cells - 1)} \cup {1}

\* C9: the index is unchanged when the points are given in another order and when all
\* points are translated by a common offset, wrapped modulo the extents
C9_Invariance ==
    (pc = "done" /\ ret.fn \in CEFunctions) =>
        /\ \A p \in Permutations(1..Len(args.x)) : CEOf(ret.fn, Permuted(args, p)) = ret.val
        /\ \A tx \in Offsets(args.xmax), ty \in Offsets(args.ymax) :
              CEOf(ret.fn, Translated(args, tx, ty)) = ret.val

\* an index has been computed for two distinct points that are nearest across the wrap
C9_Witness ==
    /\ pc = "done" /\ ret.fn = "calcCE" /\ Len(args.x) = 2
    /\ ret.val.kind = "num"
    /\ TorSq(args, 1, 2) > 0
    /\ 2 * Abs(args.x[1] - args.x[2]) > args.xmax
    /\ ret.val = calcCE(args.xmax, args.ymax, <<args.x[2], args.x[1]>>, <<args.y[2], args.y[1]>>)

\* C10: a Clark-Evans call with n <= 1 points ends in an error, not a number
C10_FailsExplicitly ==
    (pc = "done" /\ ret.fn \in CEFunctions /\ Len(args.x) <= 1) => ret.val.kind = "error"


\* ======================================================== energy reducers

\* a deliberately wrong variant: the weights are left out
calcDistributionEnergy_Unweighted(values, targets, weights) ==
    LET F[i \in 0..Len(values)] ==
            IF i = 0 THEN 0
            ELSE F[i - 1] + (values[i] - targets[i]) * (values[i] - targets[i])
    IN  F[Len(values)]

\* energy after the first i iterations is F[i]
calcDistributionEnergy(values, targets, weights) ==
    LET F[i \in 0..Len(values)] ==
            IF i = 0 THEN 0
            ELSE LET diff == values[i] - targets[i]
                 IN  F[i - 1] + weights[i] * diff * diff
    IN  F[Len(values)]

\* a deliberately wrong variant: the entry is overwritten instead of accumulated
MapAdd_Overwrite(component_energies, comp_id, energy) ==
    IF comp_id \in DOMAIN component_energies
    THEN [component_energies EXCEPT ![comp_id] = energy]
    ELSE [k \in DOMAIN component_energies \cup {comp_id} |->
             IF k = comp_id THEN energy ELSE component_energies[k]]

\* component_energies[comp_id] += energy on a std::map<int, double>: operator[]
\* inserts 0.0 for a new key
MapAdd(component_energies, comp_id, energy) ==
    IF comp_id \in DOMAIN component_energies
    THEN [component_energies EXCEPT ![comp_id] = @ + energy]
    ELSE [k \in DOMAIN component_energies \cup {comp_id} |->
             IF k = comp_id THEN 0 + energy ELSE component_energies[k]]

\* the keys of a std::map in iteration order (ascending)
RECURSIVE MapKeys(_)
MapKeys(K) ==
    IF K = {} THEN <<>>
    ELSE LET k == CHOOSE a \in K : \A b \in K : a <= b
         IN  <<k>> \o MapKeys(K \ {k})

calcEnergyComponentsCpp(metrics, targets, weights, component_ids) ==
    LET M[i \in 0..Len(metrics)] ==
            IF i = 0 THEN <<>>
            ELSE LET comp_id == component_ids[i]
                     diff == metrics[i] - targets[i]
                     energy == weights[i] * diff * diff
                 IN  MapAdd(M[i - 1], comp_id, energy)
        component_energies == M[Len(metrics)]
        ids == MapKeys(DOMAIN component_energies)
    IN  [component_id |-> ids,
         energy |-> [k \in 1..Len(ids) |-> component_energies[ids[k]]]]

Weights == {-1, 2}

EnergyArgs ==
    UNION { [values : [1..n -> 0..MaxVal], targets : [1..n -> 0..MaxVal],
             weights : [1..n -> Weights], component_ids : [1..n -> 1..MaxId]] :
            n \in 0..MaxLen }

InitEnergy ==
    /\ args \in EnergyArgs
    /\ pc = "idle"
    /\ loc = <<>>
    /\ ret = NoRet
    /\ nthreads_var = DefaultThreads

CallCalcDistributionEnergy ==
    /\ pc = "idle"
    /\ ret' = [fn |-> "calcDistributionEnergy",
               val |-> calcDistributionEnergy(args.values, args.targets, args.weights)]
    /\ pc' = "done"
    /\ UNCHANGED <<args, loc>>
    /\ UNCHANGED nthreads_var

CallCalcEnergyComponentsCpp ==
    /\ pc = "idle"
    /\ ret' = [fn |-> "calcEnergyComponentsCpp",
               val |-> calcEnergyComponentsCpp(args.values, args.targets, args.weights,
                                               args.component_ids)]
    /\ pc' = "done"
    /\ UNCHANGED <<args, loc>>
    /\ UNCHANGED nthreads_var

NextEnergy ==
    \/ CallCalcDistributionEnergy
    \/ CallCalcEnergyComponentsCpp

SpecEnergy == InitEnergy /\ [][NextEnergy]_vars

\* the sum of f over the finite index set S
RECURSIVE SumOver(_, _)
SumOver(f, S) ==
    IF S = {} THEN 0
    ELSE LET i == CHOOSE j \in S : TRUE IN f[i] + SumOver(f, S \ {i})

\* weights[i] * (values[i] - targets[i])^2
Term(a, i) == a.weights[i] * (a.values[i] - a.targets[i]) * (a.values[i] - a.targets[i])

Terms(a) == [i \in 1..Len(a.values) |-> Term(a, i)]

\* C6: calcDistributionEnergy returns the sum of weights[i]*(values[i]-targets[i])^2
\* over all positions, and 0 when values and targets are equal element by element
C6_DistributionEnergy ==
    (pc = "done" /\ ret.fn = "calcDistributionEnergy") =>
        /\ ret.val = SumOver(Terms(args), 1..Len(args.values))
        /\ args.values = args.targets => ret.val = 0

\* a weighted energy with one deviating and one matching position has been returned
C6_Witness ==
    /\ pc = "done" /\ ret.fn = "calcDistributionEnergy"
    /\ Len(args.values) = 2
    /\ args.values[1] # args.targets[1] /\ args.values[2] = args.targets[2]
    /\ args.weights = <<2, -1>>
    /\ ret.val = 2

\* C7: calcEnergyComponentsCpp returns one entry per distinct component id, in
\* strictly ascending id order, each the sum of the terms of the positions carrying
\* that id; the entries sum to calcDistributionEnergy of the same arrays
C7_EnergyComponents ==
    (pc = "done" /\ ret.fn = "calcEnergyComponentsCpp") =>
        LET ids == ret.val.component_id
            energies == ret.val.energy
            n == Len(args.values)
        IN  /\ Len(ids) = Len(energies)
            /\ {ids[k] : k \in 1..Len(ids)} = {args.component_ids[i] : i \in 1..n}
            /\ \A k \in 1..(Len(ids) - 1) : ids[k] < ids[k + 1]
            /\ \A k \in 1..Len(ids) :
                  energies[k] =
                      SumOver(Terms(args), {i \in 1..n : args.component_ids[i] = ids[k]})
            /\ SumOver(energies, 1..Len(energies)) =
                  calcDistributionEnergy(args.values, args.targets, args.weights)

\* components given in descending id order, both with a non-zero term, have been
\* returned in ascending order
C7_Witness ==
    /\ pc = "done" /\ ret.fn = "calcEnergyComponentsCpp"
    /\ args.component_ids = <<2, 1>>
    /\ ret.val.component_id = <<1, 2>>
    /\ ret.val.energy = <<-1, 2>>


\* ============================================================ crown overlap
\* An area is kept exactly as  pi * (integer) + a bag of lens terms; a lens term is
\* the triple <<dist^2, r1, r2>> of the arguments of the lens formula.

ZeroArea == [pi |-> 0, lens |-> EmptyBag]

\* M_PI * r * r
PiTimes(rr) == [pi |-> rr, lens |-> EmptyBag]

\* area1 + area2 - triangle of the lens formula
LensArea(dist_sq, r1, r2) == [pi |-> 0, lens |-> SetToBag({<<dist_sq, r1, r2>>})]

AreaAdd(a, b) == [pi |-> a.pi + b.pi, lens |-> a.lens (+) b.lens]

\* sqrt(q) < v and sqrt(q) <= v
SqrtLt(q, v) == v > 0 /\ q < v * v

SqrtLe(q, v) == v >= 0 /\ q <= v * v

\* a deliberately wrong variant: every overlapping pair takes the lens formula
PairOverlap_AlwaysLens(x, y, crown_radius, i, j) ==
    LET dx == x[i] - x[j]
        dy == y[i] - y[j]
        dist_sq == dx * dx + dy * dy
        r_sum == crown_radius[i] + crown_radius[j]
    IN  IF SqrtLt(dist_sq, r_sum)
        THEN LensArea(dist_sq, crown_radius[i], crown_radius[j])
        ELSE ZeroArea

\* what the loop body adds to total_overlap for the pair (i, j)
PairOverlap(x, y, crown_radius, i, j) ==
    LET dx == x[i] - x[j]
        dy == y[i] - y[j]
        dist_sq == dx * dx + dy * dy
        r_sum == crown_radius[i] + crown_radius[j]
        r1 == crown_radius[i]
        r2 == crown_radius[j]
    IN  IF SqrtLt(dist_sq, r_sum)
        THEN IF SqrtLe(dist_sq, Abs(r1 - r2))
             THEN PiTimes(Min(r1, r2) * Min(r1, r2))
             ELSE LensArea(dist_sq, r1, r2)
        ELSE ZeroArea

\* the loop counters after the iteration (i, j) of
\* for(i = 0; i < n - 1; i++) for(j = i + 1; j < n; j++)   (1-based here)
NextPair(i, j, n) == IF j + 1 <= n THEN <<i, j + 1>> ELSE <<i + 1, i + 2>>

YCoords == {0, 1}

CrownArgs ==
    UNION { [x : [1..n -> 0..MaxCoord], y : [1..n -> YCoords],
             crown_radius : [1..n -> 0..MaxRadius]] : n \in 0..MaxCrowns }

InitOverlap ==
    /\ args \in CrownArgs
    /\ pc = "idle"
    /\ loc = <<>>
    /\ ret = NoRet
    /\ nthreads_var = DefaultThreads

CallCalcCrownOverlapCpp ==
    /\ pc = "idle"
    /\ pc' = "calcCrownOverlapCpp"
    /\ loc' = [i |-> 1, j |-> 2, total_overlap |-> ZeroArea, visited |-> <<>>]
    /\ UNCHANGED <<args, ret>>
    /\ UNCHANGED nthreads_var

\* one iteration of the inner loop; visited lists the iterations run so far
OverlapPair ==
    /\ pc = "calcCrownOverlapCpp"
    /\ loc.i <= Len(args.x) - 1
    /\ LET term == PairOverlap(args.x, args.y, args.crown_radius, loc.i, loc.j)
           nxt == NextPair(loc.i, loc.j, Len(args.x))
       IN  loc' = [i |-> nxt[1], j |-> nxt[2],
                   total_overlap |-> AreaAdd(loc.total_overlap, term),
                   visited |-> Append(loc.visited, <<loc.i, loc.j, term>>)]
    /\ UNCHANGED <<args, pc, ret>>
    /\ UNCHANGED nthreads_var

ReturnCrownOverlap ==
    /\ pc = "calcCrownOverlapCpp"
    /\ loc.i > Len(args.x) - 1
    /\ ret' = [fn |-> "calcCrownOverlapCpp", val |-> loc.total_overlap]
    /\ pc' = "done"
    /\ UNCHANGED <<args, loc>>
    /\ UNCHANGED nthreads_var

NextOverlap ==
    \/ CallCalcCrownOverlapCpp
    \/ OverlapPair
    \/ ReturnCrownOverlap

SpecOverlap == InitOverlap /\ [][NextOverlap]_vars

\* the squared planar distance of footprints i and j
PlanarSq(a, i, j) == (a.x[i] - a.x[j]) * (a.x[i] - a.x[j]) + (a.y[i] - a.y[j]) * (a.y[i] - a.y[j])

RECURSIVE AreaSum(_)
AreaSum(v) == IF v = <<>> THEN ZeroArea ELSE AreaAdd(Head(v)[3], AreaSum(Tail(v)))

\* C4: calcCrownOverlapCpp visits every unordered pair i<j exactly once and adds one
\* term per pair: 0 when r1+r2 <= d, pi*min(r1,r2)^2 when d <= |r1-r2| (d = 0
\* included), the lens value otherwise; the sum is returned unclipped
C4_CrownOverlap ==
    (pc = "done" /\ ret.fn = "calcCrownOverlapCpp") =>
        LET n == Len(args.x)
            v == loc.visited
        IN  /\ {<<v[k][1], v[k][2]>> : k \in 1..Len(v)} =
                  {<<i, j>> \in (1..n) \X (1..n) : i < j}
            /\ \A k, l \in 1..Len(v) :
                  (v[k][1] = v[l][1] /\ v[k][2] = v[l][2]) => k = l
            /\ \A k \in 1..Len(v) :
                  LET i == v[k][1]
                      j == v[k][2]
                      r1 == args.crown_radius[i]
                      r2 == args.crown_radius[j]
                      dd == PlanarSq(args, i, j)
                      apart == (r1 + r2) * (r1 + r2) <= dd
                      inside == dd <= (r1 - r2) * (r1 - r2)
                      smaller == IF r1 <= r2 THEN r1 ELSE r2
                  IN  /\ apart => v[k][3] = ZeroArea
                      /\ inside => v[k][3] = PiTimes(smaller * smaller)
                      /\ (~apart /\ ~inside) => v[k][3] = LensArea(dd, r1, r2)
            /\ ret.val = AreaSum(v)

\* two identical circles of radius 2 have contributed pi * 4
C4_Witness ==
    /\ pc = "done" /\ ret.fn = "calcCrownOverlapCpp"
    /\ Len(args.x) = 2
    /\ args.x[1] = args.x[2] /\ args.y[1] = args.y[2]
    /\ args.crown_radius = <<2, 2>>
    /\ ret.val = PiTimes(4)


\* ================================================ nearest footprint distance
\* min_d holds a squared distance: <<"num", q>>, or the initial literal 1e10

Num(q) == <<"num", q>>

\* d_sq < min_d; every integer of the model is below 10^10
LtNum(d_sq, min_d) == IF min_d = E10 THEN TRUE ELSE d_sq < min_d[2]

\* sqrt(min_d); sqrt(1e10) is 1e5
SqrtNum(min_d) == IF min_d = E10 THEN <<"1e5", 0>> ELSE SqrtOf(min_d[2])

\* the value every slot gets when there are no targets, 1000.0
NO_TARGET_DISTANCE == SqrtOf(1000000)

\* a deliberately wrong variant: the first target is skipped
NearestTarget_SkipFirst(x1, y1, x2, y2, i) ==
    LET F[j \in 1..Len(x2)] ==
            IF j = 1 THEN E10
            ELSE LET dx == x1[i] - x2[j]
                     dy == y1[i] - y2[j]
                     d_sq == dx * dx + dy * dy
                 IN  IF LtNum(d_sq, F[j - 1]) THEN Num(d_sq) ELSE F[j - 1]
    IN  SqrtNum(F[Len(x2)])

\* one iteration of the loop over group 1 (body shared by the serial and the OpenMP
\* function): min_d after the first j targets is F[j]; the slot gets sqrt(min_d)
NearestTarget(x1, y1, x2, y2, i) ==
    LET F[j \in 0..Len(x2)] ==
            IF j = 0 THEN E10
            ELSE LET dx == x1[i] - x2[j]
                     dy == y1[i] - y2[j]
                     d_sq == dx * dx + dy * dy
                 IN  IF LtNum(d_sq, F[j - 1]) THEN Num(d_sq) ELSE F[j - 1]
    IN  SqrtNum(F[Len(x2)])

calcNearestDistanceCpp(x1, y1, x2, y2) ==
    IF Len(x2) = 0 THEN [i \in 1..Len(x1) |-> NO_TARGET_DISTANCE]
    ELSE [i \in 1..Len(x1) |-> NearestTarget(x1, y1, x2, y2, i)]

NearestArgs ==
    UNION { [x1 : [1..n1 -> 0..MaxCoord], y1 : [1..n1 -> {0}],
             x2 : [1..n2 -> 0..MaxCoord], y2 : [1..n2 -> YCoords]] :
            n1 \in 0..MaxQ, n2 \in 0..MaxT }

InitNearest ==
    /\ args \in NearestArgs
    /\ pc = "idle"
    /\ loc = <<>>
    /\ ret = NoRet
    /\ nthreads_var = DefaultThreads

CallCalcNearestDistanceCpp ==
    /\ pc = "idle"
    /\ ret' = [fn |-> "calcNearestDistanceCpp",
               val |-> calcNearestDistanceCpp(args.x1, args.y1, args.x2, args.y2)]
    /\ pc' = "done"
    /\ UNCHANGED <<args, loc>>
    /\ UNCHANGED nthreads_var

\* entry of calcNearestDistanceParallel: min_dist is zero-filled; with no targets it
\* is filled with 1000.0 and returned at once
CallCalcNearestDistanceParallel ==
    /\ pc = "idle"
    /\ IF Len(args.x2) = 0
       THEN /\ ret' = [fn |-> "calcNearestDistanceParallel",
                       val |-> [i \in 1..Len(args.x1) |-> NO_TARGET_DISTANCE]]
            /\ pc' = "done"
            /\ loc' = loc
       ELSE /\ loc' = [min_dist |-> [i \in 1..Len(args.x1) |-> SqrtOf(0)], finished |-> {},
                       writes |-> {}]
            /\ pc' = "calcNearestDistanceParallel"
            /\ ret' = ret
    /\ UNCHANGED args
    /\ UNCHANGED nthreads_var

\* some worker runs an iteration i of the parallel for that has not run yet; writes
\* lists the pairs <<iteration, slot of min_dist written by it>>
NearestIteration ==
    /\ pc = "calcNearestDistanceParallel"
    /\ \E i \in (1..Len(args.x1)) \ loc.finished :
          loc' = [min_dist |-> [loc.min_dist EXCEPT
                                   ![i] = NearestTarget(args.x1, args.y1, args.x2, args.y2, i)],
                  finished |-> loc.finished \cup {i},
                  writes |-> loc.writes \cup {<<i, i>>}]
    /\ UNCHANGED <<args, pc, ret>>
    /\ UNCHANGED nthreads_var

\* the parallel region has ended (all iterations ran)
ReturnNearestParallel ==
    /\ pc = "calcNearestDistanceParallel"
    /\ loc.finished = 1..Len(args.x1)
    /\ ret' = [fn |-> "calcNearestDistanceParallel", val |-> loc.min_dist]
    /\ pc' = "done"
    /\ UNCHANGED <<args, loc>>
    /\ UNCHANGED nthreads_var

NextNearest ==
    \/ CallCalcNearestDistanceCpp
    \/ CallCalcNearestDistanceParallel
    \/ NearestIteration
    \/ ReturnNearestParallel

SpecNearest == InitNearest /\ [][NextNearest]_vars

\* the squared planar distance from querier i to target j
QuerySq(a, i, j) ==
    (a.x1[i] - a.x2[j]) * (a.x1[i] - a.x2[j]) + (a.y1[i] - a.y2[j]) * (a.y1[i] - a.y2[j])

NoTargetWitness ==
    /\ pc = "done" /\ ret.fn = "calcNearestDistanceCpp"
    /\ Len(args.x1) = 2 /\ Len(args.x2) = 0
    /\ ret.val = <<SqrtOf(1000000), SqrtOf(1000000)>>


\* ============================================================= canopy cover
\* Cell centres (xi + 0.5) * grid_res are kept doubled, (2*xi + 1) * grid_res, so that
\* all quantities are integers; a grid is a function on the cell indices
\* yi * n_cells + xi, with xi and yi counted from 0.

NCells(a) == CeilDiv(a.plot_size, a.grid_res)

\* 2 * cell_x for column xi (and 2 * cell_y for row yi)
Centre2(a, xi) == (2 * xi + 1) * a.grid_res

\* dx*dx + dy*dy <= radius*radius for footprint i and the centre of cell (xi, yi)
CoversCell(a, i, xi, yi) ==
    LET dx2 == Centre2(a, xi) - 2 * a.x[i]
        dy2 == Centre2(a, yi) - 2 * a.y[i]
    IN  dx2 * dx2 + dy2 * dy2 <= 4 * a.crown_radius[i] * a.crown_radius[i]

\* the loop counting the covered cells of a vector<bool> grid
CountCovered(grid) == Cardinality({c \in DOMAIN grid : grid[c]})

\* the reduction counting the covered cells of a vector<char> grid
CountCoveredChar(grid) == Cardinality({c \in DOMAIN grid : grid[c] = 1})

\* (double)covered / (n_cells * n_cells)
CoverFraction(covered, total) ==
    IF total = 0 THEN [kind |-> "NaN"]
    ELSE [kind |-> "num", covered |-> covered, total |-> total]

\* a deliberately wrong variant: every cell of the bounding box is assigned the
\* outcome of the test, so a cell covered by an earlier tree can be cleared
DirectTree_Assign(a, grid, i) ==
    LET n_cells == NCells(a)
        radius == a.crown_radius[i]
        x_min == Max(0, FloorDiv(a.x[i] - radius, a.grid_res))
        x_max == Min(n_cells - 1, CeilDiv(a.x[i] + radius, a.grid_res))
        y_min == Max(0, FloorDiv(a.y[i] - radius, a.grid_res))
        y_max == Min(n_cells - 1, CeilDiv(a.y[i] + radius, a.grid_res))
    IN  [c \in DOMAIN grid |->
            LET xi == c % n_cells
                yi == c \div n_cells
            IN  IF xi \in x_min..x_max /\ yi \in y_min..y_max
                THEN CoversCell(a, i, xi, yi)
                ELSE grid[c]]

\* ---- calcCanopyCoverCpp: one iteration of the loop over the trees
DirectTree(a, grid, i) ==
    LET n_cells == NCells(a)
        radius == a.crown_radius[i]
        x_min == Max(0, FloorDiv(a.x[i] - radius, a.grid_res))
        x_max == Min(n_cells - 1, CeilDiv(a.x[i] + radius, a.grid_res))
        y_min == Max(0, FloorDiv(a.y[i] - radius, a.grid_res))
        y_max == Min(n_cells - 1, CeilDiv(a.y[i] + radius, a.grid_res))
    IN  [c \in DOMAIN grid |->
            LET xi == c % n_cells
                yi == c \div n_cells
            IN  IF /\ xi \in x_min..x_max
                   /\ yi \in y_min..y_max
                   /\ CoversCell(a, i, xi, yi)
                THEN TRUE
                ELSE grid[c]]

EmptyGrid(a, v) == [c \in 0..(NCells(a) * NCells(a) - 1) |-> v]

\* the grid of calcCanopyCoverCpp after all trees
DirectGrid(a) ==
    LET G[i \in 0..Len(a.x)] ==
            IF i = 0 THEN EmptyGrid(a, FALSE) ELSE DirectTree(a, G[i - 1], i)
    IN  G[Len(a.x)]

calcCanopyCoverCpp(a) ==
    CoverFraction(CountCovered(DirectGrid(a)), NCells(a) * NCells(a))

\* ---- SpatialGrid
\* a SpatialGrid: cell_size, n_cells_x (= n_cells_y) and the bucket lists grid[idx]

SpatialGrid(plot_sz, cell_sz) ==
    LET n == CeilDiv(plot_sz, cell_sz)
    IN  [cell_size |-> cell_sz, n_cells_x |-> n, n_cells_y |-> n,
         grid |-> [idx \in 0..(n * n - 1) |-> <<>>]]

getGridIndex(sg, x, y) ==
    LET ix == Min(sg.n_cells_x - 1, FloorDiv(x, sg.cell_size))
        iy == Min(sg.n_cells_y - 1, FloorDiv(y, sg.cell_size))
    IN  iy * sg.n_cells_x + ix

addPoint(sg, point_id, x, y) ==
    [sg EXCEPT !.grid[getGridIndex(sg, x, y)] = Append(@, point_id)]

\* the query for the point (x2/2, y2/2): buckets in the order of the two loops
getNearbyPoints(sg, x2, y2, radius) ==
    LET cell_radius == CeilDiv(radius, sg.cell_size)
        cx == FloorDiv(x2, 2 * sg.cell_size)
        cy == FloorDiv(y2, 2 * sg.cell_size)
        w == 2 * cell_radius + 1
        Bucket(k) ==
            LET ix == cx + (k \div w) - cell_radius
                iy == cy + (k % w) - cell_radius
            IN  IF ix >= 0 /\ ix < sg.n_cells_x /\ iy >= 0 /\ iy < sg.n_cells_y
                THEN sg.grid[iy * sg.n_cells_x + ix]
                ELSE <<>>
        N[k \in 0..(w * w)] == IF k = 0 THEN <<>> ELSE N[k - 1] \o Bucket(k - 1)
    IN  IF w <= 0 THEN <<>> ELSE N[w * w]

\* *max_element(crown_radius.begin(), crown_radius.end()) of a non-empty vector
MaxElement(v) == CHOOSE m \in {v[i] : i \in 1..Len(v)} : \A i \in 1..Len(v) : v[i] <= m

\* the index built by calcCanopyCoverIndexedCpp
BuildIndex(a, max_radius) ==
    LET T[i \in 0..Len(a.x)] ==
            IF i = 0 THEN SpatialGrid(a.plot_size, Max(2 * max_radius, 5))
            ELSE addPoint(T[i - 1], i, a.x[i], a.y[i])
    IN  T[Len(a.x)]

\* the scan of the candidates of one cell, with its break
RECURSIVE AnyCovers(_, _, _, _)
AnyCovers(a, nearby, xi, yi) ==
    IF nearby = <<>> THEN FALSE
    ELSE IF CoversCell(a, Head(nearby), xi, yi) THEN TRUE
    ELSE AnyCovers(a, Tail(nearby), xi, yi)

\* ---- calcCanopyCoverIndexedCpp: the body of the loops for cell (xi, yi)
IndexedCell(a, tree_index, max_radius, grid, xi, yi) ==
    LET nearby == getNearbyPoints(tree_index, Centre2(a, xi), Centre2(a, yi), max_radius)
    IN  IF AnyCovers(a, nearby, xi, yi)
        THEN [grid EXCEPT ![yi * NCells(a) + xi] = TRUE]
        ELSE grid

\* the grid of calcCanopyCoverIndexedCpp for a non-empty footprint set
IndexedGrid(a) ==
    LET n_cells == NCells(a)
        max_radius == MaxElement(a.crown_radius)
        tree_index == BuildIndex(a, max_radius)
        G[k \in 0..(n_cells * n_cells)] ==
            IF k = 0 THEN EmptyGrid(a, FALSE)
            ELSE IndexedCell(a, tree_index, max_radius, G[k - 1],
                             (k - 1) \div n_cells, (k - 1) % n_cells)
    IN  G[n_cells * n_cells]

\* ---- calcCanopyCoverParallel: the body of the collapsed loops for cell (xi, yi)
ParallelCell(a, grid, xi, yi) ==
    IF AnyCovers(a, [i \in 1..Len(a.x) |-> i], xi, yi)
    THEN [grid EXCEPT ![yi * NCells(a) + xi] = 1]
    ELSE grid

ParallelGrid(a) ==
    LET n_cells == NCells(a)
        G[k \in 0..(n_cells * n_cells)] ==
            IF k = 0 THEN EmptyGrid(a, 0)
            ELSE ParallelCell(a, G[k - 1], (k - 1) \div n_cells, (k - 1) % n_cells)
    IN  G[n_cells * n_cells]

\* ---- SimpleGrid
SimpleGrid(plot_sz, cell_sz, n_trees) ==
    LET n == CeilDiv(plot_sz, cell_sz)
    IN  [cell_size |-> cell_sz, nx |-> n, ny |-> n,
         cells |-> [idx \in 0..(n * n - 1) |-> <<>>]]

addTree(tg, tree_id, x, y) ==
    LET ix == Min(tg.nx - 1, FloorDiv(x, tg.cell_size))
        iy == Min(tg.ny - 1, FloorDiv(y, tg.cell_size))
    IN  [tg EXCEPT !.cells[iy * tg.nx + ix] = Append(@, tree_id)]

\* the query for the point (x2/2, y2/2)
getNearby(tg, x2, y2, radius) ==
    LET cell_radius == CeilDiv(radius, tg.cell_size)
        cx == FloorDiv(x2, 2 * tg.cell_size)
        cy == FloorDiv(y2, 2 * tg.cell_size)
        w == 2 * cell_radius + 1
        Bucket(k) ==
            LET ix == cx + (k \div w) - cell_radius
                iy == cy + (k % w) - cell_radius
            IN  IF ix >= 0 /\ ix < tg.nx /\ iy >= 0 /\ iy < tg.ny
                THEN tg.cells[iy * tg.nx + ix]
                ELSE <<>>
        N[k \in 0..(w * w)] == IF k = 0 THEN <<>> ELSE N[k - 1] \o Bucket(k - 1)
    IN  IF w <= 0 THEN <<>> ELSE N[w * w]

\* the index built by calcCanopyCoverHybrid
BuildTreeGrid(a, max_radius) ==
    LET T[i \in 0..Len(a.x)] ==
            IF i = 0 THEN SimpleGrid(a.plot_size, Max(2 * max_radius, 5), Len(a.x))
            ELSE addTree(T[i - 1], i, a.x[i], a.y[i])
    IN  T[Len(a.x)]

\* ---- calcCanopyCoverHybrid: the body of the collapsed loops for cell (xi, yi)
HybridCell(a, tree_grid, max_radius, grid, xi, yi) ==
    LET nearby == getNearby(tree_grid, Centre2(a, xi), Centre2(a, yi), max_radius)
    IN  IF AnyCovers(a, nearby, xi, yi)
        THEN [grid EXCEPT ![yi * NCells(a) + xi] = 1]
        ELSE grid

\* ---- the elements of grid an iteration of the parallel loops assigns
\* a deliberately wrong variant: every iteration assigns element 0
ParallelCellWrites_SharedSlot(a, xi, yi) ==
    IF AnyCovers(a, [i \in 1..Len(a.x) |-> i], xi, yi) THEN {0} ELSE {}

\* calcCanopyCoverParallel: grid[cell_idx] = 1 with cell_idx = yi * n_cells + xi
ParallelCellWrites(a, xi, yi) ==
    IF AnyCovers(a, [i \in 1..Len(a.x) |-> i], xi, yi) THEN {yi * NCells(a) + xi} ELSE {}

\* calcCanopyCoverHybrid: grid[yi * n_cells + xi] = 1
HybridCellWrites(a, tree_grid, max_radius, xi, yi) ==
    IF AnyCovers(a, getNearby(tree_grid, Centre2(a, xi), Centre2(a, yi), max_radius), xi, yi)
    THEN {yi * NCells(a) + xi}
    ELSE {}

\* ---- inputs
Plots == {[plot_size |-> 15, grid_res |-> 10], [plot_size |-> 10, grid_res |-> 5]}

XCoords(plot_size) == {c \in {0, 5, 10, 15} : c <= plot_size}

RowCoords == {5, 10}

CrownRadii == {0, 2, 5}

CoverArgs ==
    UNION { [x : [1..n -> XCoords(p.plot_size)], y : [1..n -> RowCoords],
             crown_radius : [1..n -> CrownRadii],
             plot_size : {p.plot_size}, grid_res : {p.grid_res}] :
            p \in Plots, n \in 0..MaxTrees }

InitCover ==
    /\ args \in CoverArgs
    /\ pc = "idle"
    /\ loc = <<>>
    /\ ret = NoRet
    /\ nthreads_var = DefaultThreads

\* ---- calcCanopyCoverCpp
CallCalcCanopyCoverCpp ==
    /\ pc = "idle"
    /\ pc' = "calcCanopyCoverCpp"
    /\ loc' = [grid |-> EmptyGrid(args, FALSE), i |-> 1]
    /\ UNCHANGED <<args, ret>>
    /\ UNCHANGED nthreads_var

DirectTreeStep ==
    /\ pc = "calcCanopyCoverCpp"
    /\ loc.i <= Len(args.x)
    /\ loc' = [grid |-> DirectTree(args, loc.grid, loc.i), i |-> loc.i + 1]
    /\ UNCHANGED <<args, pc, ret>>
    /\ UNCHANGED nthreads_var

ReturnCanopyCoverCpp ==
    /\ pc = "calcCanopyCoverCpp"
    /\ loc.i > Len(args.x)
    /\ ret' = [fn |-> "calcCanopyCoverCpp",
               val |-> CoverFraction(CountCovered(loc.grid), NCells(args) * NCells(args))]
    /\ pc' = "done"
    /\ UNCHANGED <<args, loc>>
    /\ UNCHANGED nthreads_var

\* ---- calcCanopyCoverIndexedCpp
\* what *max_element(begin, end) of an empty vector may read
GarbageRadius == {0, 1000}

\* With no footprint, *max_element(begin, end) dereferences end(): the call either
\* crashes or goes on with whatever value was read there.
CallCalcCanopyCoverIndexedCpp ==
    /\ pc = "idle"
    /\ IF Len(args.x) = 0
       THEN \/ /\ pc' = "done"
               /\ ret' = [fn |-> "calcCanopyCoverIndexedCpp", val |-> [kind |-> "crash"]]
               /\ loc' = [grid |-> EmptyGrid(args, FALSE)]
            \/ \E g \in GarbageRadius :
                  /\ pc' = "calcCanopyCoverIndexedCpp"
                  /\ loc' = [grid |-> EmptyGrid(args, FALSE), max_radius |-> g,
                             tree_index |-> BuildIndex(args, g), cell |-> 0]
                  /\ ret' = ret
       ELSE /\ pc' = "calcCanopyCoverIndexedCpp"
            /\ loc' = [grid |-> EmptyGrid(args, FALSE),
                       max_radius |-> MaxElement(args.crown_radius),
                       tree_index |-> BuildIndex(args, MaxElement(args.crown_radius)),
                       cell |-> 0]
            /\ ret' = ret
    /\ UNCHANGED args
    /\ UNCHANGED nthreads_var

\* iteration number loc.cell of the two loops: xi outer, yi inner
IndexedCellStep ==
    /\ pc = "calcCanopyCoverIndexedCpp"
    /\ loc.cell < NCells(args) * NCells(args)
    /\ loc' = [loc EXCEPT
                 !.grid = IndexedCell(args, loc.tree_index, loc.max_radius, @,
                                      loc.cell \div NCells(args), loc.cell % NCells(args)),
                 !.cell = @ + 1]
    /\ UNCHANGED <<args, pc, ret>>
    /\ UNCHANGED nthreads_var

ReturnCanopyCoverIndexedCpp ==
    /\ pc = "calcCanopyCoverIndexedCpp"
    /\ loc.cell >= NCells(args) * NCells(args)
    /\ ret' = [fn |-> "calcCanopyCoverIndexedCpp",
               val |-> CoverFraction(CountCovered(loc.grid), NCells(args) * NCells(args))]
    /\ pc' = "done"
    /\ UNCHANGED <<args, loc>>
    /\ UNCHANGED nthreads_var

\* ---- calcCanopyCoverParallel
CallCalcCanopyCoverParallel ==
    /\ pc = "idle"
    /\ pc' = "calcCanopyCoverParallel"
    /\ loc' = [grid |-> EmptyGrid(args, 0), finished |-> {}, writes |-> {}]
    /\ UNCHANGED <<args, ret>>
    /\ UNCHANGED nthreads_var

\* some worker runs an iteration (xi, yi) of the collapsed loops that has not run yet;
\* writes lists the pairs <<iteration, element of grid written by it>>
ParallelCellStep ==
    /\ pc = "calcCanopyCoverParallel"
    /\ \E k \in (0..(NCells(args) * NCells(args) - 1)) \ loc.finished :
          loc' = [grid |-> ParallelCell(args, loc.grid, k \div NCells(args), k % NCells(args)),
                  finished |-> loc.finished \cup {k},
                  writes |-> loc.writes \cup
                      {<<k, c>> : c \in ParallelCellWrites(args, k \div NCells(args),
                                                           k % NCells(args))}]
    /\ UNCHANGED <<args, pc, ret>>
    /\ UNCHANGED nthreads_var

\* after the parallel region: the reduction over the grid and the return
ReturnCanopyCoverParallel ==
    /\ pc = "calcCanopyCoverParallel"
    /\ loc.finished = 0..(NCells(args) * NCells(args) - 1)
    /\ ret' = [fn |-> "calcCanopyCoverParallel",
               val |-> CoverFraction(CountCoveredChar(loc.grid), NCells(args) * NCells(args))]
    /\ pc' = "done"
    /\ UNCHANGED <<args, loc>>
    /\ UNCHANGED nthreads_var

\* ---- calcCanopyCoverHybrid
\* With no footprint, *max_element(begin, end) dereferences end(), as in the indexed
\* variant.
CallCalcCanopyCoverHybrid ==
    /\ pc = "idle"
    /\ IF Len(args.x) = 0
       THEN \/ /\ pc' = "done"
               /\ ret' = [fn |-> "calcCanopyCoverHybrid", val |-> [kind |-> "crash"]]
               /\ loc' = [grid |-> EmptyGrid(args, 0)]
            \/ \E g \in GarbageRadius :
                  /\ pc' = "calcCanopyCoverHybrid"
                  /\ loc' = [grid |-> EmptyGrid(args, 0), max_radius |-> g,
                             tree_grid |-> BuildTreeGrid(args, g), finished |-> {},
                             writes |-> {}]
                  /\ ret' = ret
       ELSE /\ pc' = "calcCanopyCoverHybrid"
            /\ loc' = [grid |-> EmptyGrid(args, 0),
                       max_radius |-> MaxElement(args.crown_radius),
                       tree_grid |-> BuildTreeGrid(args, MaxElement(args.crown_radius)),
                       finished |-> {}, writes |-> {}]
            /\ ret' = ret
    /\ UNCHANGED args
    /\ UNCHANGED nthreads_var

\* some worker runs an iteration (xi, yi) of the collapsed loops that has not run yet
HybridCellStep ==
    /\ pc = "calcCanopyCoverHybrid"
    /\ \E k \in (0..(NCells(args) * NCells(args) - 1)) \ loc.finished :
          loc' = [loc EXCEPT
                    !.grid = HybridCell(args, loc.tree_grid, loc.max_radius, @,
                                        k \div NCells(args), k % NCells(args)),
                    !.finished = @ \cup {k},
                    !.writes = @ \cup
                        {<<k, c>> : c \in HybridCellWrites(args, loc.tree_grid, loc.max_radius,
                                                           k \div NCells(args),
                                                           k % NCells(args))}]
    /\ UNCHANGED <<args, pc, ret>>
    /\ UNCHANGED nthreads_var

\* after the parallel region: the reduction over the grid and the return
ReturnCanopyCoverHybrid ==
    /\ pc = "calcCanopyCoverHybrid"
    /\ loc.finished = 0..(NCells(args) * NCells(args) - 1)
    /\ ret' = [fn |-> "calcCanopyCoverHybrid",
               val |-> CoverFraction(CountCoveredChar(loc.grid), NCells(args) * NCells(args))]
    /\ pc' = "done"
    /\ UNCHANGED <<args, loc>>
    /\ UNCHANGED nthreads_var

NextCover ==
    \/ CallCalcCanopyCoverCpp
    \/ DirectTreeStep
    \/ ReturnCanopyCoverCpp
    \/ CallCalcCanopyCoverIndexedCpp
    \/ IndexedCellStep
    \/ ReturnCanopyCoverIndexedCpp
    \/ CallCalcCanopyCoverParallel
    \/ ParallelCellStep
    \/ ReturnCanopyCoverParallel
    \/ CallCalcCanopyCoverHybrid
    \/ HybridCellStep
    \/ ReturnCanopyCoverHybrid

SpecCover == InitCover /\ [][NextCover]_vars

CoverFunctions ==
    {"calcCanopyCoverCpp", "calcCanopyCoverIndexedCpp", "calcCanopyCoverParallel"}

\* the cells a vector<bool> grid, and a vector<char> grid, mark as covered
Marked(grid) == {c \in DOMAIN grid : grid[c]}

MarkedChar(grid) == {c \in DOMAIN grid : grid[c] = 1}

\* the cells marked by the call that has returned
MarkedByCall ==
    IF ret.fn = "calcCanopyCoverParallel" THEN MarkedChar(loc.grid) ELSE Marked(loc.grid)

\* C1: for every footprint set and every (plot_size, grid_res) the direct, the indexed
\* and the parallel variant mark the same set of cells and return the same fraction
C1_SameCover ==
    (pc = "done" /\ ret.fn \in CoverFunctions) =>
        /\ ret.val = calcCanopyCoverCpp(args)
        /\ MarkedByCall = Marked(DirectGrid(args))
        /\ MarkedByCall = MarkedChar(ParallelGrid(args))
        /\ Len(args.x) > 0 => MarkedByCall = Marked(IndexedGrid(args))

\* footprints inside the plot, off its upper edges
InsidePlot ==
    \A i \in 1..Len(args.x) : args.x[i] < args.plot_size /\ args.y[i] < args.plot_size

\* the same for a non-empty footprint set inside the plot
SameCoverInsidePlot ==
    (Len(args.x) > 0 /\ InsidePlot) => C1_SameCover

\* the same for a non-empty footprint set with a positive largest radius
SameCoverPositiveRadius ==
    (Len(args.x) > 0 /\ MaxElement(args.crown_radius) > 0) => C1_SameCover


\* ------------------------------------------------- canopy cover, edge cases

AllCoverFunctions == CoverFunctions \cup {"calcCanopyCoverHybrid"}

CharGridFunctions == {"calcCanopyCoverParallel", "calcCanopyCoverHybrid"}

\* the cells marked in the grid of the running or returned call
MarkedNow ==
    IF pc \in CharGridFunctions \/ (pc = "done" /\ ret.fn \in CharGridFunctions)
    THEN MarkedChar(loc.grid)
    ELSE Marked(loc.grid)

\* C11: with no footprint every canopy-cover variant returns coverage 0, has set no
\* cell and has read no element of the empty arrays
C11_EmptyCoverZero ==
    (pc = "done" /\ ret.fn \in AllCoverFunctions /\ Len(args.x) = 0) =>
        /\ ret.val = CoverFraction(0, NCells(args) * NCells(args))
        /\ MarkedNow = {}
        /\ "max_radius" \notin DOMAIN loc

\* the variants that never take the largest radius do so
EmptyCoverZeroDirectParallel ==
    (pc = "done" /\ ret.fn \in {"calcCanopyCoverCpp", "calcCanopyCoverParallel"}
       /\ Len(args.x) = 0) =>
        /\ ret.val = CoverFraction(0, NCells(args) * NCells(args))
        /\ MarkedNow = {}


\* --------------------------------------------------------- rejected inputs

\* the explicit failure the interface promises for an input outside the domain
DomainError == [kind |-> "DomainError"]

\* the entry points taking point or footprint arrays
ArrayEntryPoints ==
    CEFunctions \cup AllCoverFunctions \cup {"calcCrownOverlapCpp"}

\* C12: an entry point that takes point or footprint arrays fails with a DomainError
\* when they are empty; it returns neither 0 nor NaN
C12_EmptyIsDomainError ==
    (pc = "done" /\ ret.fn \in ArrayEntryPoints /\ Len(args.x) = 0) =>
        ret.val = DomainError


\* ---- calls with arguments outside the domain
\* No entry point validates its arguments.  The vectors are indexed with the
\* unchecked operator[]: an index at or past the end of a shorter vector reads
\* whatever lies there, or the call crashes.

\* what a read past the end of a vector may yield
PastEnd == {0, 7}

\* the first n elements of v as the loop reads them, g[i] standing for a read past
\* the end
ReadN(v, n, g) == [i \in 1..n |-> IF i <= Len(v) THEN v[i] ELSE g[i]]

\* lengths of the four arrays that are not all the same
MismatchedLengths ==
    {l \in [{"values", "targets", "weights", "component_ids"} -> 0..MaxLen] :
        \E a, b \in DOMAIN l : l[a] # l[b]}

MismatchedEnergyArgs ==
    UNION { [values : [1..l.values -> 0..MaxVal], targets : [1..l.targets -> 0..MaxVal],
             weights : {[i \in 1..l.weights |-> w] : w \in Weights},
             component_ids : {[i \in 1..l.component_ids |-> i]}] :
            l \in MismatchedLengths }

\* footprints with at least one negative radius
NegativeRadiusArgs ==
    UNION { {a \in [x : [1..n -> 0..1], y : [1..n -> {0}],
                    crown_radius : [1..n -> -1..2]] :
                \E i \in 1..n : a.crown_radius[i] < 0} : n \in 1..MaxCrowns }

\* point sets on a plot with a non-positive extent
BadExtentArgs ==
    UNION { [xmax : {0, -3}, ymax : {3}, x : [1..n -> 0..1], y : [1..n -> 0..1]] :
            n \in 2..MaxN }

InitInvalid ==
    /\ args \in MismatchedEnergyArgs \cup NegativeRadiusArgs \cup BadExtentArgs
    /\ pc = "idle"
    /\ loc = <<>>
    /\ ret = NoRet
    /\ nthreads_var = DefaultThreads

\* calcDistributionEnergy with targets or weights of another length than values:
\* n = values.size(); targets[i] and weights[i] are read for every i < n, longer
\* arrays are silently cut
InvalidCallCalcDistributionEnergy ==
    /\ pc = "idle"
    /\ "values" \in DOMAIN args
    /\ Len(args.targets) # Len(args.values) \/ Len(args.weights) # Len(args.values)
    /\ LET n == Len(args.values)
           past == Len(args.targets) < n \/ Len(args.weights) < n
       IN  /\ loc' = [read_past_end |-> past]
           /\ \/ /\ past
                 /\ ret' = [fn |-> "calcDistributionEnergy", val |-> [kind |-> "crash"]]
              \/ \E gt, gw \in [1..n -> PastEnd] :
                    ret' = [fn |-> "calcDistributionEnergy",
                            val |-> calcDistributionEnergy(args.values,
                                                           ReadN(args.targets, n, gt),
                                                           ReadN(args.weights, n, gw))]
    /\ pc' = "done"
    /\ UNCHANGED args
    /\ UNCHANGED nthreads_var

\* calcEnergyComponentsCpp: n = metrics.size(); component_ids[i], targets[i] and
\* weights[i] are read for every i < n
InvalidCallCalcEnergyComponentsCpp ==
    /\ pc = "idle"
    /\ "values" \in DOMAIN args
    /\ LET n == Len(args.values)
           past == \/ Len(args.targets) < n
                   \/ Len(args.weights) < n
                   \/ Len(args.component_ids) < n
       IN  /\ loc' = [read_past_end |-> past]
           /\ \/ /\ past
                 /\ ret' = [fn |-> "calcEnergyComponentsCpp", val |-> [kind |-> "crash"]]
              \/ \E gt, gw, gc \in [1..n -> PastEnd] :
                    ret' = [fn |-> "calcEnergyComponentsCpp",
                            val |-> calcEnergyComponentsCpp(args.values,
                                                            ReadN(args.targets, n, gt),
                                                            ReadN(args.weights, n, gw),
                                                            ReadN(args.component_ids, n, gc))]
    /\ pc' = "done"
    /\ UNCHANGED args
    /\ UNCHANGED nthreads_var

\* calcCrownOverlapCpp takes the radii as they are
InvalidCallCalcCrownOverlapCpp ==
    /\ "crown_radius" \in DOMAIN args
    /\ CallCalcCrownOverlapCpp

\* calcCE takes the extents as they are
InvalidCallCalcCE ==
    /\ "xmax" \in DOMAIN args
    /\ CallCalcCE

NextInvalid ==
    \/ InvalidCallCalcDistributionEnergy
    \/ InvalidCallCalcEnergyComponentsCpp
    \/ InvalidCallCalcCrownOverlapCpp
    \/ OverlapPair
    \/ ReturnCrownOverlap
    \/ InvalidCallCalcCE

SpecInvalid == InitInvalid /\ [][NextInvalid]_vars

\* C13: a call with arrays of different lengths, a negative radius or a non-positive
\* extent fails explicitly: it never gets as far as returning a result, and it reads
\* nothing past the end of a shorter array
C13_InvalidInputFails ==
    /\ pc # "done"
    /\ "read_past_end" \in DOMAIN loc => ~loc.read_past_end


\* ------------------------------------- findNeighboursParallel, step by step
\* parallelFor(0, n, finder) hands contiguous ranges [begin, end) of the rows to
\* workers; which ranges, and in which order, is up to the scheduler.  Rows are
\* counted from 1 here, a range is begin..end with both ends included.

\* NumericMatrix distances(n, n): zero-filled
ZeroMatrix(n) == [i \in 1..n |-> [j \in 1..n |-> SqrtOf(0)]]

\* NeighborFinder::operator()(begin, end) on the matrix d
NeighborFinderRange(a, d, begin, end) ==
    [i \in 1..Len(a.x) |->
        IF i \in begin..end
        THEN [j \in 1..Len(a.x) |->
                 IF i # j
                 THEN getEuclideanDistanceRcpp(a.xmax, a.ymax, a.x[i], a.y[i], a.x[j], a.y[j])
                 ELSE DBL_MAX]
        ELSE d[i]]

\* the elements distances(i, j) that operator()(begin, end) assigns
NeighborFinderWrites(a, begin, end) == {<<i, j>> : i \in begin..end, j \in 1..Len(a.x)}

\* what row[k] may yield for k at or past the end of the row
PastEndOfRow == {SqrtOf(0), DBL_MAX}

CallFindNeighboursParallel ==
    /\ pc = "idle"
    /\ \E mi \in 1..MaxK :
          loc' = [mi |-> mi, distances |-> ZeroMatrix(Len(args.x)), rows_done |-> {},
                  writes |-> {}]
    /\ pc' = "findNeighboursParallel"
    /\ UNCHANGED <<args, ret>>
    /\ UNCHANGED nthreads_var

\* a worker is given a range of rows that no worker has had yet; writes lists the
\* pairs <<range, element of distances written by its worker>>
NeighborFinderWorker ==
    /\ pc = "findNeighboursParallel"
    /\ \E begin, end \in 1..Len(args.x) :
          /\ begin <= end
          /\ (begin..end) \cap loc.rows_done = {}
          /\ loc' = [loc EXCEPT
                       !.distances = NeighborFinderRange(args, @, begin, end),
                       !.rows_done = @ \cup (begin..end),
                       !.writes = @ \cup {<<<<begin, end>>, e>> :
                                             e \in NeighborFinderWrites(args, begin, end)}]
    /\ UNCHANGED <<args, pc, ret>>
    /\ UNCHANGED nthreads_var

\* after parallelFor: per row, nth_element(row.begin(), row.begin() + mi, row.end())
\* and the sum of row[0..mi-1] over mi.  With mi above the row length the position
\* row.begin() + mi lies past the end and row[k] is read out of bounds.
ReturnFindNeighboursParallel ==
    /\ pc = "findNeighboursParallel"
    /\ loc.rows_done = 1..Len(args.x)
    /\ LET n == Len(args.x)
           mi == loc.mi
       IN  IF n >= 1 /\ mi > n
           THEN \/ ret' = [fn |-> "findNeighboursParallel", mi |-> mi,
                           val |-> [kind |-> "crash"]]
                \/ \E g \in [1..n -> [(n + 1)..mi -> PastEndOfRow]] :
                      ret' = [fn |-> "findNeighboursParallel", mi |-> mi,
                              val |-> [i \in 1..n |->
                                        [sum |-> SurdSum(SortAsc(loc.distances[i]))
                                                 (+) SurdSum([k \in 1..(mi - n) |-> g[i][n + k]]),
                                         div |-> mi]]]
           ELSE ret' = [fn |-> "findNeighboursParallel", mi |-> mi,
                        val |-> [i \in 1..n |->
                                  [sum |-> SurdSum(SubSeq(SortAsc(loc.distances[i]), 1, mi)),
                                   div |-> mi]]]
    /\ pc' = "done"
    /\ UNCHANGED <<args, loc>>
    /\ UNCHANGED nthreads_var

NextKNN ==
    \/ CallFindNeighbours
    \/ CallFindNeighboursParallel
    \/ NeighborFinderWorker
    \/ ReturnFindNeighboursParallel

SpecKNN == InitNN /\ [][NextKNN]_vars

\* the sum of the mi smallest entries of row i does not go beyond the real distances
SumsRealDistancesOnly(v) ==
    \A i \in DOMAIN v : DBL_MAX \notin DOMAIN v[i].sum /\ v[i].div <= Len(args.x) - 1

\* C14: with n <= k, findNeighbours reads and pops no empty queue, and
\* findNeighboursParallel forms no position past the end of a row and sums no row
\* entry beyond the n-1 real neighbour distances
C14_FewPointsInBounds ==
    (pc = "done" /\ Len(args.x) >= 1 /\ Len(args.x) <= ret.mi) =>
        /\ ret.fn = "findNeighbours" =>
              \A i \in 1..Len(args.x) : Len(loc.distances[i]) = ret.mi
        /\ ret.fn = "findNeighboursParallel" =>
              /\ loc.mi <= Len(args.x)
              /\ ret.val # [kind |-> "crash"]
              /\ SumsRealDistancesOnly(ret.val)

\* the priority-queue engine alone: every queue holds mi+1 entries until its final
\* pop, so no top() and no pop() meets an empty queue
FindNeighboursQueuesNeverEmpty ==
    (pc = "done" /\ ret.fn = "findNeighbours") =>
        \A i \in 1..Len(args.x) : Len(loc.distances[i]) = ret.mi

\* with n > k the matrix engine stays inside its rows
ParallelInBoundsManyPoints ==
    (pc = "done" /\ ret.fn = "findNeighboursParallel" /\ Len(args.x) > ret.mi) =>
        /\ ret.val = findNeighboursParallel(args.x, args.y, args.xmax, args.ymax, ret.mi)
        /\ SumsRealDistancesOnly(ret.val)


\* ------------------------------------------------ state that outlives a call
\* The calls of the other specifications leave n_threads at its default 0.  Here a
\* caller makes one call after the other, with any n_threads, in a build with OpenMP.

\* if(n_threads > 0) omp_set_num_threads(n_threads);
SetNumThreads(n_threads, current) == IF n_threads > 0 THEN n_threads ELSE current

ThreadArgs == {a \in PointArgs : Len(a.x) = 2 /\ a.xmax < a.ymax}

InitThreads ==
    /\ args \in ThreadArgs
    /\ pc = "idle"
    /\ loc = <<>>
    /\ ret = NoRet
    /\ nthreads_var = DefaultThreads

\* calcCEParallel(xmax, ymax, x, y, n_threads); workers is the size of the team its
\* parallel region gets
ThreadsCallCalcCEParallel ==
    /\ pc = "idle"
    /\ \E n_threads \in 0..MaxThreads :
          /\ nthreads_var' = SetNumThreads(n_threads, nthreads_var)
          /\ ret' = [fn |-> "calcCEParallel", n_threads |-> n_threads,
                     workers |-> SetNumThreads(n_threads, nthreads_var),
                     val |-> calcCEParallel(args.xmax, args.ymax, args.x, args.y)]
    /\ pc' = "done"
    /\ UNCHANGED <<args, loc>>

\* getOpenMPInfo()
CallGetOpenMPInfo ==
    /\ pc = "idle"
    /\ ret' = [fn |-> "getOpenMPInfo", n_threads |-> 0, workers |-> 1,
               val |-> [available |-> TRUE, max_threads |-> nthreads_var,
                        recommended_threads |-> Max(1, nthreads_var - 1)]]
    /\ pc' = "done"
    /\ UNCHANGED <<args, loc, nthreads_var>>

\* the caller goes on to its next call
NextCall ==
    /\ pc = "done"
    /\ args' \in ThreadArgs
    /\ pc' = "idle"
    /\ loc' = <<>>
    /\ ret' = NoRet
    /\ UNCHANGED nthreads_var

NextThreads ==
    \/ ThreadsCallCalcCEParallel
    \/ CallGetOpenMPInfo
    \/ NextCall

SpecThreads == InitThreads /\ [][NextThreads]_vars

\* C15: no call leaves process-wide state behind: the thread-count setting is what it
\* was before the calls, and a call's result and the number of workers it runs with
\* depend on its own arguments only
C15_NoStateOutlivesCall ==
    /\ nthreads_var = DefaultThreads
    /\ (pc = "done" /\ ret.fn = "getOpenMPInfo") => ret.val.max_threads = DefaultThreads
    /\ (pc = "done" /\ ret.fn = "calcCEParallel" /\ ret.n_threads = 0) =>
           ret.workers = DefaultThreads

\* the numeric results do not depend on earlier calls
ThreadsResultFromArguments ==
    (pc = "done" /\ ret.fn = "calcCEParallel") =>
        ret.val = calcCEParallel(args.xmax, args.ymax, args.x, args.y)


\* ------------------------------------------------- the parallel entry points
\* The parallel regions of all parallel entry points, each entered with the default
\* n_threads = 0; a worker's unit of work is one iteration (OpenMP) or one range of
\* rows (parallelFor), run in any order.

\* ---- calcCEParallel, step by step
ParallelCallCalcCEParallel ==
    /\ pc = "idle"
    /\ "xmax" \in DOMAIN args
    /\ pc' = "calcCEParallel"
    /\ loc' = [nearest_dist |-> [i \in 1..Len(args.x) |-> E10], finished |-> {},
               writes |-> {}]
    /\ UNCHANGED <<args, ret, nthreads_var>>

\* some worker runs an iteration i of the parallel for that has not run yet
CEParallelIteration ==
    /\ pc = "calcCEParallel"
    /\ \E i \in (1..Len(args.x)) \ loc.finished :
          loc' = [nearest_dist |-> [loc.nearest_dist EXCEPT
                      ![i] = NearestLoop(args.xmax, args.ymax, args.x, args.y, i, 1, E10)],
                  finished |-> loc.finished \cup {i},
                  writes |-> loc.writes \cup {<<i, i>>}]
    /\ UNCHANGED <<args, pc, ret, nthreads_var>>

\* after the parallel region: the serial sum, the mean and the index
ReturnCEParallel ==
    /\ pc = "calcCEParallel"
    /\ loc.finished = 1..Len(args.x)
    /\ ret' = [fn |-> "calcCEParallel",
               val |-> Index(Quot(SurdSum(loc.nearest_dist), Len(args.x)),
                             args.xmax, args.ymax, Len(args.x))]
    /\ pc' = "done"
    /\ UNCHANGED <<args, loc, nthreads_var>>

ParallelCallFindNeighboursParallel ==
    /\ "xmax" \in DOMAIN args
    /\ CallFindNeighboursParallel

ParallelCallCalcCanopyCoverParallel ==
    /\ "crown_radius" \in DOMAIN args
    /\ CallCalcCanopyCoverParallel

ParallelCallCalcCanopyCoverHybrid ==
    /\ "crown_radius" \in DOMAIN args
    /\ CallCalcCanopyCoverHybrid

ParallelCallCalcNearestDistanceParallel ==
    /\ "x1" \in DOMAIN args
    /\ CallCalcNearestDistanceParallel

\* ---- inputs: one plot per engine
ParallelPointArgs == {a \in PointArgs : a.xmax < a.ymax}

ParallelCoverArgs ==
    {a \in CoverArgs : a.plot_size = 15 /\ \A i \in 1..Len(a.y) : a.y[i] = 5}

ParallelNearestArgs ==
    {a \in NearestArgs : \A j \in 1..Len(a.y2) : a.y2[j] = 0}

InitParallel ==
    /\ args \in ParallelPointArgs \cup ParallelCoverArgs \cup ParallelNearestArgs
    /\ pc = "idle"
    /\ loc = <<>>
    /\ ret = NoRet
    /\ nthreads_var = DefaultThreads

NextParallel ==
    \/ ParallelCallFindNeighboursParallel
    \/ NeighborFinderWorker
    \/ ReturnFindNeighboursParallel
    \/ ParallelCallCalcCEParallel
    \/ CEParallelIteration
    \/ ReturnCEParallel
    \/ ParallelCallCalcCanopyCoverParallel
    \/ ParallelCellStep
    \/ ReturnCanopyCoverParallel
    \/ ParallelCallCalcCanopyCoverHybrid
    \/ HybridCellStep
    \/ ReturnCanopyCoverHybrid
    \/ ParallelCallCalcNearestDistanceParallel
    \/ NearestIteration
    \/ ReturnNearestParallel

SpecParallel == InitParallel /\ [][NextParallel]_vars

\* the parallel entry point that is running or has returned
ParallelFn == IF pc = "done" THEN ret.fn ELSE pc

\* the writes logged so far
Writes == IF "writes" \in DOMAIN loc THEN loc.writes ELSE {}

\* no element was written by two different units of work
WritesDisjoint ==
    \A w1, w2 \in Writes : w1[2] = w2[2] => w1[1] = w2[1]

\* every unit of work wrote only what it owns
WritesOwned ==
    /\ ParallelFn = "findNeighboursParallel" =>
          \A w \in Writes : w[2][1] \in w[1][1]..w[1][2]
    /\ ParallelFn \in CharGridFunctions =>
          \A w \in Writes :
              w[2] = (w[1] % NCells(args)) * NCells(args) + (w[1] \div NCells(args))
    /\ ParallelFn \in {"calcCEParallel", "calcNearestDistanceParallel"} =>
          \A w \in Writes : w[2] = w[1]

\* the covered cells are counted once every iteration has run
ReductionAfterWrites ==
    (pc = "done" /\ ret.fn \in CharGridFunctions /\ "finished" \in DOMAIN loc) =>
        /\ loc.finished = 0..(NCells(args) * NCells(args) - 1)
        /\ ret.val = CoverFraction(CountCoveredChar(loc.grid), NCells(args) * NCells(args))

\* C16: in every parallel entry point no two units of work write the same element
\* under any schedule, each writes only the rows, the cell or the slot it owns, the
\* inputs are never written, and the covered cells are counted only after all cell
\* writes
C16_DisjointWrites ==
    /\ [](WritesDisjoint /\ WritesOwned /\ ReductionAfterWrites)
    /\ [][args' = args]_vars

\* two iterations of calcCanopyCoverHybrid have both written a cell and the call has
\* returned
C16_Witness ==
    /\ pc = "done"
    /\ ret.fn = "calcCanopyCoverHybrid"
    /\ \E w1, w2 \in Writes : w1[1] # w2[1]


\* ---------------------------------------------- the coverage grid over time

\* the cells marked in the coverage grid, none before the grid exists
GridCells == IF "grid" \in DOMAIN loc THEN MarkedNow ELSE {}

\* every marked cell has its centre within the radius of some footprint
MarkedCellsCovered ==
    \A c \in GridCells :
        \E i \in 1..Len(args.x) : CoversCell(args, i, c % NCells(args), c \div NCells(args))

\* the returned count is the number of marked cells, between 0 and n_cells * n_cells
CountIsMarkedCells ==
    (pc = "done" /\ ret.fn \in AllCoverFunctions /\ ret.val.kind = "num") =>
        /\ ret.val.covered = Cardinality(GridCells)
        /\ ret.val.covered >= 0
        /\ ret.val.covered <= NCells(args) * NCells(args)
        /\ ret.val.total = NCells(args) * NCells(args)

\* the grid right after the entry of a variant has no marked cell
StartsUnmarked == (pc = "idle" /\ pc' # "idle") => GridCells' = {}

\* a marked cell stays marked
StaysMarked == GridCells \subseteq GridCells'

\* C17: within one canopy-cover computation every cell starts false, is set true only
\* when its centre lies within some footprint's radius, is never reset once true, and
\* the returned count is the number of true cells, between 0 and n_cells*n_cells
C17_MonotoneGrid ==
    /\ [](MarkedCellsCovered /\ CountIsMarkedCells)
    /\ [][StartsUnmarked /\ StaysMarked]_vars

\* the direct variant has returned after two trees, the second of which has a cell in
\* its bounding box that only the first covers
C17_Witness ==
    /\ pc = "done"
    /\ ret.fn = "calcCanopyCoverCpp"
    /\ Len(args.x) = 2
    /\ \E c \in GridCells :
          /\ ~CoversCell(args, 2, c % NCells(args), c \div NCells(args))
          /\ DirectTree_Assign(args, loc.grid, 2)[c] = FALSE


\* ------------------------------------------------------- the bucket index

\* the elements of a sequence
Range(q) == {q[k] : k \in 1..Len(q)}

\* the bucket lists of the index of the running variant
Buckets ==
    IF pc = "calcCanopyCoverIndexedCpp" THEN loc.tree_index.grid ELSE loc.tree_grid.cells

\* the candidates the running variant gets for the centre of cell (xi, yi)
Candidates(xi, yi) ==
    IF pc = "calcCanopyCoverIndexedCpp"
    THEN getNearbyPoints(loc.tree_index, Centre2(args, xi), Centre2(args, yi), loc.max_radius)
    ELSE getNearby(loc.tree_grid, Centre2(args, xi), Centre2(args, yi), loc.max_radius)

\* every footprint is in exactly one bucket, once, under the id its centre maps to
StoredInOneBucket ==
    \A i \in 1..Len(args.x) :
        /\ Cardinality({b \in DOMAIN Buckets : i \in Range(Buckets[b])}) = 1
        /\ \A b \in DOMAIN Buckets :
              Cardinality({k \in 1..Len(Buckets[b]) : Buckets[b][k] = i}) <= 1
        /\ pc = "calcCanopyCoverIndexedCpp" =>
              getGridIndex(loc.tree_index, args.x[i], args.y[i]) \in DOMAIN Buckets

\* the candidates of every cell include every footprint whose disc contains its centre
CandidatesIncludeCovering ==
    \A xi, yi \in 0..(NCells(args) - 1) :
        \A i \in 1..Len(args.x) :
            CoversCell(args, i, xi, yi) => i \in Range(Candidates(xi, yi))

IndexBuilt == pc \in {"calcCanopyCoverIndexedCpp", "calcCanopyCoverHybrid"}

\* C18: with the index built, every footprint with centre in [0, plot_size]^2 is in
\* exactly one bucket with an in-range id, and the candidate list of every coverage
\* cell contains every footprint whose disc contains the cell centre
C18_IndexDropsNothing ==
    IndexBuilt =>
        /\ StoredInOneBucket
        /\ CandidatesIncludeCovering

\* the storing half alone
IndexStoresEachOnce ==
    IndexBuilt => StoredInOneBucket

\* nothing is dropped when all centres are below plot_size
IndexDropsNothingInsidePlot ==
    (IndexBuilt /\ InsidePlot) => CandidatesIncludeCovering

\* nothing is dropped when the largest radius is positive
IndexDropsNothingPositiveRadius ==
    (IndexBuilt /\ loc.max_radius > 0) => CandidatesIncludeCovering

=============================================================================
